---- MODULE Spec2Model ----
(***************************************************************************)
(* Huffman coder of Project-C/main.c: sorted-array priority queue, tree    *)
(* builder, code table generator, encoder and decoder.                     *)
(*                                                                         *)
(* Representation.                                                         *)
(*  - A C string is a sequence of one-character strings (without the NUL). *)
(*  - The malloc'ed HuffmanNode objects live in `heap`, a sequence of      *)
(*    records; a pointer is an index into it and NULL is 0.  Nodes are     *)
(*    never freed before the end of main, so indices are allocation order. *)
(*  - `unsigned` is 32 bits wide.  A value v is the pair <<hi, lo>> of its *)
(*    16-bit halves, v = hi * 2^16 + lo, so that sums wrap modulo 2^32     *)
(*    exactly as in C.                                                     *)
(*  - queue->array is modelled by its live prefix array[0 .. size-1]; the  *)
(*    slots beyond size are never read by the code.                        *)
(*  - malloc is assumed to succeed for non-zero sizes.  malloc(0) may      *)
(*    return NULL or a zero-sized block; both outcomes are modelled.       *)
(***************************************************************************)
EXTENDS Integers, Sequences, FiniteSets

VARIABLES
    data,          \* char data[]       (argument of buildHuffmanTree)
    freq,          \* unsigned freq[]   (argument of buildHuffmanTree)
    size,          \* int size          (argument of buildHuffmanTree)
    heap,          \* the allocated HuffmanNode objects
    queue,         \* struct SortedArrayPriorityQueue
    i,             \* loop counter of the leaf-insertion loop
    root,          \* value returned by buildHuffmanTree
    codes,         \* char codes[256][256]
    text,          \* input of encodeData
    encodedData,   \* result of encodeData / input of decodeData
    decodedData,   \* result of decodeData
    emitNodes,     \* history: the node each decoded character was read from
    written,       \* history: bytes decodeData stored into its buffer
    allocated,     \* history: bytes decodeData asked malloc for
    dropped,       \* history: nodes discarded by the queue-full branch
    minNode,       \* value returned by the last extractMin
    fault,         \* the process dereferenced NULL or corrupted the heap
    pc             \* position in the program

vars == <<data, freq, size, heap, queue, i, root, codes, text, encodedData,
          decodedData, emitNodes, written, allocated, dropped, minNode,
          fault, pc>>

----------------------------------------------------------------------------
(* Bounds of the model. *)

MaxSize == 3        \* longest frequency table of Init
WideSize == 5       \* longest frequency table of WideInit
MaxText == 3        \* longest text given to encodeData
MaxStream == 3      \* longest stream given directly to decodeData
MaxCap == 4         \* largest capacity in the stand-alone queue runs
MaxNodes == 6       \* nodes created in a stand-alone queue run

NULL == 0

----------------------------------------------------------------------------
(* unsigned, 32 bits, as two 16-bit halves. *)

Limb == 2 ^ 16

U32(hi, lo) == <<hi, lo>>

\* a + b on unsigned: wraps modulo 2^32
AddU32(a, b) ==
    LET lo == a[2] + b[2]
        hi == a[1] + b[1] + (lo \div Limb)
    IN  <<hi % Limb, lo % Limb>>

\* a > b on unsigned
GtU32(a, b) == a[1] > b[1] \/ (a[1] = b[1] /\ a[2] > b[2])

\* a >= b on unsigned
GeU32(a, b) == a = b \/ GtU32(a, b)

----------------------------------------------------------------------------
(* Characters. *)

Letters == {"a", "b", "c", "d", "e"}
Symbols == {"a", "b", "c", "."}       \* table symbols drawn by Init
Chars == Letters \cup {".", "$", "0", "1", " "}

isalpha(c) == c \in Letters

Alphabet == <<"a", "b", "c", "d", "e">>   \* table symbols of WideInit

FreqValues == {U32(0, 0), U32(0, 1), U32(0, 2)}

\* 1, 2^31 - 1, 2^31, 2^31 + 5
WideFreqValues == {U32(0, 1), U32(32767, 65535), U32(32768, 0), U32(32768, 5)}

SeqsUpTo(S, n) == UNION {[1..k -> S] : k \in 0..n}

----------------------------------------------------------------------------
(* Nodes and the priority queue. *)

createHuffmanNode(d, f) == [data |-> d, freq |-> f, left |-> NULL, right |-> NULL]

createSortedArrayPriorityQueueShort(capacity) ==
    [size |-> 0, capacity |-> capacity - 1, array |-> <<>>]

createSortedArrayPriorityQueue(capacity) ==
    [size |-> 0, capacity |-> capacity, array |-> <<>>]

\* The backward scan of insertSortedArrayPriorityQueue: starting at the last
\* element (1-based position pos), step over every node whose frequency is
\* greater than f.  The result is the number of elements left in front.
RECURSIVE ShiftPosUnstable(_, _, _, _)
ShiftPosUnstable(h, array, pos, f) ==
    IF pos >= 1 /\ GeU32(h[array[pos]].freq, f)
    THEN ShiftPosUnstable(h, array, pos - 1, f)
    ELSE pos

RECURSIVE ShiftPos(_, _, _, _)
ShiftPos(h, array, pos, f) ==
    IF pos >= 1 /\ GtU32(h[array[pos]].freq, f)
    THEN ShiftPos(h, array, pos - 1, f)
    ELSE pos

QueueFull(q) == q.size = q.capacity

insertSortedArrayPriorityQueue(h, q, node) ==
    IF QueueFull(q)
    THEN q
    ELSE LET k == ShiftPos(h, q.array, q.size, h[node].freq)
         IN  [q EXCEPT !.array = SubSeq(@, 1, k) \o <<node>> \o SubSeq(@, k + 1, q.size),
                       !.size = @ + 1]

\* extractMin: the returned node, and the queue it leaves behind
extractMinNode(q) == IF q.size = 0 THEN NULL ELSE q.array[1]

extractMinQueue(q) ==
    IF q.size = 0 THEN q ELSE [q EXCEPT !.array = Tail(@), !.size = @ - 1]

----------------------------------------------------------------------------
(* Code table generation. *)

IsLeaf(h, n) == h[n].left = NULL /\ h[n].right = NULL

RECURSIVE storeCodesSameBit(_, _, _, _)
storeCodesSameBit(h, n, code, cs) ==
    IF IsLeaf(h, n) /\ isalpha(h[n].data)
    THEN [cs EXCEPT ![h[n].data] = code]
    ELSE LET c1 == IF h[n].left # NULL
                   THEN storeCodesSameBit(h, h[n].left, Append(code, "0"), cs)
                   ELSE cs
         IN  IF h[n].right # NULL
             THEN storeCodesSameBit(h, h[n].right, Append(code, "0"), c1)
             ELSE c1

\* storeCodes(root, code, top, codes): code[0 .. top-1] is the sequence `code`
RECURSIVE storeCodes(_, _, _, _)
storeCodes(h, n, code, cs) ==
    IF IsLeaf(h, n) /\ isalpha(h[n].data)
    THEN [cs EXCEPT ![h[n].data] = code]
    ELSE LET c1 == IF h[n].left # NULL
                   THEN storeCodes(h, h[n].left, Append(code, "0"), cs)
                   ELSE cs
         IN  IF h[n].right # NULL
             THEN storeCodes(h, h[n].right, Append(code, "1"), c1)
             ELSE c1

generateHuffmanCodes(h, r, cs) == storeCodes(h, r, <<>>, cs)

NoCodes == [c \in Chars |-> <<>>]

----------------------------------------------------------------------------
(* Encoder and decoder. *)

\* encodeData: for each character, strcat its code, then strcat " "
RECURSIVE encodeData(_, _)
encodeData(t, cs) ==
    IF t = <<>> THEN <<>>
    ELSE cs[Head(t)] \o <<" ">> \o encodeData(Tail(t), cs)

\* The for loop of decodeData from index k (1-based) with cursor cur.
\* acc = [out, nodes, crashed]: the characters stored so far, the node each
\* came from, and whether the loop dereferenced NULL.
RECURSIVE decodeLoop(_, _, _, _, _, _)
decodeLoop(h, r, s, k, cur, acc) ==
    IF k > Len(s) THEN acc
    ELSE IF cur = NULL THEN [acc EXCEPT !.crashed = TRUE]
    ELSE LET ch == s[k]
             moved == IF ch = "0" THEN h[cur].left
                      ELSE IF ch = "1" THEN h[cur].right
                      ELSE cur
         IN  IF moved = NULL THEN [acc EXCEPT !.crashed = TRUE]
             ELSE IF IsLeaf(h, moved) \/ ch = " "
             THEN LET skip == k + 1 <= Len(s) /\ s[k + 1] = " "
                  IN  decodeLoop(h, r, s, IF skip THEN k + 2 ELSE k + 1, r,
                                 [acc EXCEPT !.out = Append(@, h[moved].data),
                                             !.nodes = Append(@, moved)])
             ELSE decodeLoop(h, r, s, k + 1, moved, acc)

decodeData(h, r, s) ==
    decodeLoop(h, r, s, 1, r, [out |-> <<>>, nodes |-> <<>>, crashed |-> FALSE])

----------------------------------------------------------------------------
(* Initial states: the arguments of buildHuffmanTree. *)

TableInit(datas, freqs, n) ==
    /\ size = n
    /\ data \in datas
    /\ freq \in freqs
    /\ heap = <<>>
    /\ queue = createSortedArrayPriorityQueue(0)
    /\ i = 0
    /\ root = NULL
    /\ codes = NoCodes
    /\ text = <<>>
    /\ encodedData = <<>>
    /\ decodedData = <<>>
    /\ emitNodes = <<>>
    /\ written = 0
    /\ allocated = 0
    /\ dropped = 0
    /\ minNode = NULL
    /\ fault = FALSE
    /\ pc = "create"

Init ==
    \E n \in 0..MaxSize :
        TableInit([1..n -> Symbols], [1..n -> FreqValues], n)

WideInit ==
    \E n \in 0..WideSize :
        TableInit({SubSeq(Alphabet, 1, n)}, [1..n -> WideFreqValues], n)

----------------------------------------------------------------------------
(* buildHuffmanTree, one action per loop iteration. *)

\* line 123: createSortedArrayPriorityQueue(size).  For size = 0 the array is
\* malloc(0): when that is NULL the function frees the queue and returns
\* NULL, and buildHuffmanTree then reads queue->size through NULL.
CreateQueue ==
    /\ pc = "create"
    /\ \/ /\ queue' = createSortedArrayPriorityQueue(size)
          /\ pc' = IF size > 0 THEN "insert" ELSE "merge"
          /\ fault' = fault
       \/ /\ size = 0
          /\ queue' = queue
          /\ pc' = "fault"
          /\ fault' = TRUE
    /\ UNCHANGED <<data, freq, size, heap, i, root, codes, text, encodedData,
                   decodedData, emitNodes, written, allocated, dropped, minNode>>

\* lines 125-127: one iteration of the leaf loop
InsertLeaf ==
    /\ pc = "insert"
    /\ i < size
    /\ LET node == Len(heap) + 1
           h == Append(heap, createHuffmanNode(data[i + 1], freq[i + 1]))
       IN  /\ heap' = h
           /\ queue' = insertSortedArrayPriorityQueue(h, queue, node)
           /\ dropped' = IF QueueFull(queue) THEN dropped + 1 ELSE dropped
    /\ i' = i + 1
    /\ pc' = IF i + 1 < size THEN "insert" ELSE "merge"
    /\ UNCHANGED <<data, freq, size, root, codes, text, encodedData,
                   decodedData, emitNodes, written, allocated, minNode, fault>>

\* lines 130-145: one iteration of the merge loop
MergeStep ==
    /\ pc = "merge"
    /\ queue.size > 1
    /\ LET left == extractMinNode(queue)
           q1 == extractMinQueue(queue)
           right == extractMinNode(q1)
           q2 == extractMinQueue(q1)
           top == Len(heap) + 1
           h == Append(heap, [createHuffmanNode("$", AddU32(heap[left].freq, heap[right].freq))
                                 EXCEPT !.left = left, !.right = right])
       IN  /\ heap' = h
           /\ queue' = insertSortedArrayPriorityQueue(h, q2, top)
           /\ dropped' = IF QueueFull(q2) THEN dropped + 1 ELSE dropped
           /\ minNode' = right
    /\ UNCHANGED <<data, freq, size, i, root, codes, text, encodedData,
                   decodedData, emitNodes, written, allocated, fault, pc>>

\* line 148: return extractMin(queue)
ReturnRoot ==
    /\ pc = "merge"
    /\ queue.size <= 1
    /\ root' = extractMinNode(queue)
    /\ minNode' = extractMinNode(queue)
    /\ queue' = extractMinQueue(queue)
    /\ pc' = "generate"
    /\ UNCHANGED <<data, freq, size, heap, i, codes, text, encodedData,
                   decodedData, emitNodes, written, allocated, dropped, fault>>

\* main, lines 347-350: generateHuffmanCodes on the returned root, unchecked.
\* storeCodes reads root->left first, so a NULL root is a NULL dereference.
GenerateCodes ==
    /\ pc = "generate"
    /\ IF root = NULL
       THEN /\ fault' = TRUE
            /\ pc' = "fault"
            /\ codes' = codes
       ELSE /\ codes' = generateHuffmanCodes(heap, root, codes)
            /\ pc' = "encode"
            /\ fault' = fault
    /\ UNCHANGED <<data, freq, size, heap, queue, i, root, text, encodedData,
                   decodedData, emitNodes, written, allocated, dropped, minNode>>

BuildNext == CreateQueue \/ InsertLeaf \/ MergeStep \/ ReturnRoot \/ GenerateCodes

\* buildHuffmanTree and generateHuffmanCodes on the tables of Init
SpecBuild == Init /\ [][BuildNext]_vars

\* the same on tables of up to WideSize letters with frequencies near 2^31
SpecWide == WideInit /\ [][BuildNext]_vars

----------------------------------------------------------------------------
(* main: encode a text, decode the result. *)

TextChars == Symbols
StreamChars == {"0", "1", " "}

\* a char* that is NULL
NullStr == <<"(null)">>

Crash ==
    /\ fault' = TRUE
    /\ pc' = "fault"

\* lines 181-202.  The buffer is malloc(strlen(data) * 256): for the empty
\* text that is malloc(0), which returns NULL (encodeData returns NULL) or a
\* zero-sized block that line 189 then writes one byte into.
Encode ==
    /\ pc = "encode"
    /\ \E t \in SeqsUpTo(TextChars, MaxText) :
          /\ text' = t
          /\ \/ /\ t # <<>>
                /\ encodedData' = encodeData(t, codes)
                /\ pc' = "decode"
                /\ fault' = fault
             \/ /\ t = <<>>
                /\ encodedData' \in {NullStr, <<>>}
                /\ pc' = "decode"
                /\ fault' = fault
             \/ /\ t = <<>>
                /\ encodedData' = encodedData
                /\ Crash
    /\ UNCHANGED <<data, freq, size, heap, queue, i, root, codes, decodedData,
                   emitNodes, written, allocated, dropped, minNode>>

\* lines 205-245 on stream s.  strlen(NULL) faults.  The buffer is
\* malloc(strlen(s)); malloc(0) may return NULL, and decodeData then returns
\* NULL.  Storing more bytes than allocated overruns the block: the call
\* either returns the string all the same or the process faults.
DecodeCall(s, next) ==
    IF s = NullStr
    THEN /\ Crash
         /\ UNCHANGED <<decodedData, emitNodes, written, allocated>>
    ELSE LET r == decodeData(heap, root, s)
             n == IF r.crashed THEN Len(r.out) ELSE Len(r.out) + 1
         IN  /\ allocated' = Len(s)
             /\ \/ /\ Len(s) = 0
                   /\ decodedData' = NullStr
                   /\ emitNodes' = <<>>
                   /\ written' = 0
                   /\ pc' = next
                   /\ fault' = fault
                \/ /\ ~r.crashed
                   /\ decodedData' = r.out
                   /\ emitNodes' = r.nodes
                   /\ written' = n
                   /\ pc' = next
                   /\ fault' = fault
                \/ /\ r.crashed \/ n > Len(s)
                   /\ decodedData' = decodedData
                   /\ emitNodes' = r.nodes
                   /\ written' = n
                   /\ Crash

\* main, lines 367 and 377: decode what encodeData returned
Decode ==
    /\ pc = "decode"
    /\ DecodeCall(encodedData, "done")
    /\ UNCHANGED <<data, freq, size, heap, queue, i, root, codes, text,
                   encodedData, dropped, minNode>>

\* decodeData called on a stream that did not come from encodeData
DecodeStream ==
    /\ pc = "encode"
    /\ \E s \in SeqsUpTo(StreamChars, MaxStream) :
          /\ encodedData' = s
          /\ DecodeCall(s, "stream_done")
    /\ UNCHANGED <<data, freq, size, heap, queue, i, root, codes, text,
                   dropped, minNode>>

Next == BuildNext \/ Encode \/ Decode \/ DecodeStream

\* the whole program on the tables of Init
Spec == Init /\ [][Next]_vars

----------------------------------------------------------------------------
(* The priority queue on its own: any sequence of inserts and extractions. *)

QueueInit ==
    \E c \in 1..MaxCap :
        /\ queue = createSortedArrayPriorityQueue(c)
        /\ heap = <<>>
        /\ dropped = 0
        /\ minNode = NULL
        /\ pc = "queue"
        /\ size = 0 /\ data = <<>> /\ freq = <<>> /\ i = 0 /\ root = NULL
        /\ codes = NoCodes /\ text = <<>> /\ encodedData = <<>>
        /\ decodedData = <<>> /\ emitNodes = <<>> /\ written = 0
        /\ allocated = 0 /\ fault = FALSE

\* createHuffmanNode followed by insertSortedArrayPriorityQueue, as at
\* lines 126 and 137-144
QueueInsert ==
    /\ pc = "queue"
    /\ Len(heap) < MaxNodes
    /\ \E f \in FreqValues :
          LET node == Len(heap) + 1
              h == Append(heap, createHuffmanNode("a", f))
          IN  /\ heap' = h
              /\ queue' = insertSortedArrayPriorityQueue(h, queue, node)
    /\ dropped' = IF QueueFull(queue) THEN dropped + 1 ELSE dropped
    /\ minNode' = NULL
    /\ UNCHANGED <<data, freq, size, i, root, codes, text, encodedData,
                   decodedData, emitNodes, written, allocated, fault, pc>>

\* extractMin, lines 102-116
QueueExtract ==
    /\ pc = "queue"
    /\ minNode' = extractMinNode(queue)
    /\ queue' = extractMinQueue(queue)
    /\ UNCHANGED <<data, freq, size, heap, i, root, codes, text, encodedData,
                   decodedData, emitNodes, written, allocated, dropped, fault, pc>>

QueueNext == QueueInsert \/ QueueExtract

SpecQueue == QueueInit /\ [][QueueNext]_vars

----------------------------------------------------------------------------
(* Properties. *)

TableSymbols == {data[k] : k \in 1..size}

\* codes[c][0] != '\0', the test printCodes uses for "c has a code"
HasEntry(c) == codes[c] # <<>>

IsPrefix(p, q) == Len(p) <= Len(q) /\ SubSeq(q, 1, Len(p)) = p

RECURSIVE CountLeaves(_, _)
CountLeaves(h, n) ==
    IF n = NULL THEN 0
    ELSE IF IsLeaf(h, n) THEN 1
    ELSE CountLeaves(h, h[n].left) + CountLeaves(h, h[n].right)

\* m is extracted before n: m is lighter, or as heavy and inserted earlier.
\* A node is inserted right after it is created, so the allocation order of
\* the nodes is their insertion order.
Precedes(h, m, n) ==
    GtU32(h[n].freq, h[m].freq) \/ (h[n].freq = h[m].freq /\ m < n)

\* C1: a text made only of symbols of the frequency table decodes, after
\* encoding, to itself.  Stated for tables of letters and non-empty texts,
\* where the outcome does not depend on malloc(0) or on isalpha.
C1_RoundTrip ==
    (/\ pc = "done"
     /\ \A k \in 1..size : isalpha(data[k])
     /\ text # <<>>
     /\ \A k \in 1..Len(text) : text[k] \in TableSymbols)
        => decodedData = text

\* C2: in the generated code table, no symbol's code is a prefix of the code
\* of another symbol.
C2_PrefixFree ==
    \A x, y \in Chars :
        (x # y /\ HasEntry(x) /\ HasEntry(y)) => ~IsPrefix(codes[x], codes[y])

C2_Witness ==
    /\ pc = "encode"
    /\ HasEntry("a") /\ HasEntry("b") /\ HasEntry("c")
    /\ Len(codes["a"]) # Len(codes["b"])

\* C3: encodeData does not return an encoded string for a text that holds a
\* character absent from the table; it reports the character and aborts.
C3_UnknownSymbolReported ==
    ~ /\ pc = "decode"
      /\ encodedData # NullStr
      /\ \E k \in 1..Len(text) : text[k] \notin TableSymbols

\* C4: for a table of one (alphabetic) symbol the root is the sole leaf, the
\* symbol's code is not empty, and every non-empty text of that symbol
\* decodes, after encoding, to itself.
C4_SingleSymbol ==
    (size = 1 /\ isalpha(data[1]) /\ pc \in {"encode", "decode", "done"})
        => /\ root = 1 /\ IsLeaf(heap, root)
           /\ codes[data[1]] # <<>>
           /\ (pc = "done" /\ text # <<>> /\ \A k \in 1..Len(text) : text[k] = data[1])
                 => decodedData = text

\* C5: with size = 0 buildHuffmanTree neither faults nor returns a NULL root.
C5_EmptyTableRejected ==
    (size = 0 /\ pc # "queue")
        => /\ ~fault
           /\ ~(pc = "generate" /\ root = NULL)

\* C6: a symbol with a strictly lower frequency than another has a code at
\* least as long as the other's.
C6_Monotone ==
    (pc = "encode" /\ size >= 2)
        => \A x, y \in 1..size :
              GtU32(freq[y], freq[x]) => Len(codes[data[x]]) >= Len(codes[data[y]])

\* C7: while a tree is built from N >= 1 symbols the queue never holds more
\* than N nodes, the queue-full branch is never taken, and the returned tree
\* has all N leaves.
C7_CapacitySufficient ==
    (size >= 1 /\ pc \in {"insert", "merge", "generate", "encode"})
        => /\ queue.capacity = size
           /\ queue.size <= size
           /\ dropped = 0
           /\ pc \in {"generate", "encode"} => CountLeaves(heap, root) = size

C7_Witness ==
    /\ pc = "merge"
    /\ size >= 3
    /\ Len(heap) = size + 1
    /\ queue.size = size - 1
    /\ dropped = 0

\* C8: the queue array is ordered by ascending weight with equal weights in
\* insertion order, and the node extractMin returned precedes, in that
\* order, every node left in the queue.
C8_StableOrder ==
    /\ \A j, k \in 1..queue.size :
          j < k => Precedes(heap, queue.array[j], queue.array[k])
    /\ minNode # NULL =>
          \A k \in 1..queue.size : Precedes(heap, minNode, queue.array[k])

C8_Witness ==
    /\ pc = "queue"
    /\ minNode # NULL
    /\ queue.size >= 2
    /\ heap[minNode].freq = heap[queue.array[1]].freq
    /\ heap[queue.array[2]].freq # heap[queue.array[1]].freq
    /\ queue.array[2] < queue.array[1]

\* C9: on a tree with at least two leaves, every character decodeData emits
\* is read from a leaf.  Stated for the calls that stay inside their buffer.
C9_LeafOnlyEmission ==
    (pc \in {"done", "stream_done"} /\ size >= 2 /\ written <= allocated)
        => \A k \in 1..Len(emitNodes) : IsLeaf(heap, emitNodes[k])

\* C10: decodeData stores at most as many bytes, the terminating NUL
\* included, as it allocated.  Stated for non-empty streams, where the
\* outcome does not depend on malloc(0).
C10_OutputFits == allocated > 0 => written <= allocated

====
